---- MODULE Spec2Model ----
(***************************************************************************)
(* The chess move service: a fixed pool of UCI engine processes kept in a  *)
(* buffered channel (EnginePool), the /move request handler that borrows   *)
(* one engine per request (moveHandler), and the process lifecycle of      *)
(* main (pool construction, serving, graceful shutdown).                   *)
(***************************************************************************)
EXTENDS Naturals, Sequences, FiniteSets, TLC

\* Number of request handlers that can be in flight at once.
NumReqs == 3
\* Largest pool capacity explored (main passes poolSize to NewEnginePool).
MaxPoolSize == 2
\* Largest number of engine.Close() calls tracked on one engine by the
\* direct callers of the pool API.
MaxCloses == 2

Reqs == 1..NumReqs
Handles == 1..MaxPoolSize

\* The nil *uci.Engine: the zero value a receive from a closed, drained
\* channel yields.
Nil == 0

StatusOK == 200
StatusBadRequest == 400
StatusInternalServerError == 500

\* The two source files of the handler: main.go (no strength step) and
\* the later one with the Elo and blunder steps.
Builds == {"main.go", "part_000"}

VARIABLES
    build,      \* which source file of the handler is the one built
    poolSize,   \* capacity of the channel, the poolSize of NewEnginePool
    engines,    \* EnginePool.engines: the buffered channel's contents, FIFO
    chClosed,   \* whether close(p.engines) has been executed
    eng,        \* per engine: its process state and how often Close ran on it
    enginePool, \* the global: "nil" until NewEnginePool returned a pool
    mainpc,     \* where main is
    sdWaiting,  \* srv.Shutdown found active connections and is polling
    pc,         \* per request handler: where moveHandler is
    engine,     \* per request handler: its local variable engine
    lastResp,   \* the most recent response written by a handler
    lastCall,   \* the most recent direct call on the pool API and its outcome
    gets,       \* per request handler: calls of enginePool.Get() it has made
    cmds,       \* per request handler: the engine.Run calls on its engine
    fn          \* the most recent application of a pure step of the handler

vars == <<build, poolSize, engines, chClosed, eng, enginePool, mainpc,
          sdWaiting, pc, engine, lastResp, lastCall,
                   gets, cmds, fn>>

----------------------------------------------------------------------------
\* The engine processes

NoEngine == [state |-> "none", closes |-> 0]

\* uci.New followed by a successful handshake: a running, initialized engine.
EngineReady(es, e) == [es EXCEPT ![e] = [state |-> "ready", closes |-> 0]]

\* uci.New succeeded, the handshake did not.
EngineStarted(es, e) == [es EXCEPT ![e] = [state |-> "started", closes |-> 0]]

\* engine.Close()
EngineClose(es, e) ==
    [es EXCEPT ![e] = [state |-> "closed", closes |-> @.closes + 1]]

----------------------------------------------------------------------------
\* The channel operations of EnginePool

\* Variant: a receive that never parks the caller (a select with a default
\* case in Get).
GetNeverBlocks(ch, closed) == FALSE

\* Variant: an off-by-one in the wake-up condition, so that a receiver stays
\* parked while a single engine is idle.
GetBlocksWithOneIdle(ch, closed) == Len(ch) <= 1 /\ ~closed

\* <-p.engines blocks exactly when the channel is open and empty.
GetBlocks(ch, closed) == Len(ch) = 0 /\ ~closed

\* The value <-p.engines yields: the oldest buffered engine, or the zero
\* value once the channel is closed and drained.
GetValue(ch) == IF Len(ch) > 0 THEN Head(ch) ELSE Nil

\* Variant: a receive that leaves the engine in the buffer.
GetRestKeeps(ch) == ch

\* The channel after the receive.
GetRest(ch) == IF Len(ch) > 0 THEN Tail(ch) ELSE ch

\* Variant: a Put that forgets the send.
PutDrops(ch, closed, cap, es, e) ==
    [engines |-> ch, eng |-> es, panic |-> closed, blocks |-> FALSE]

\* Variant: a plain send p.engines <- engine, which parks the caller on a
\* full channel.
PutPlainSend(ch, closed, cap, es, e) ==
    IF closed
    THEN [engines |-> ch, eng |-> es, panic |-> TRUE, blocks |-> FALSE]
    ELSE IF Len(ch) < cap
    THEN [engines |-> Append(ch, e), eng |-> es, panic |-> FALSE,
          blocks |-> FALSE]
    ELSE [engines |-> ch, eng |-> es, panic |-> FALSE, blocks |-> TRUE]

\* EnginePool.Put: a non-blocking send; with the buffer full the engine is
\* closed instead. A send on a closed channel panics.
\* The select has a default case, so the caller is never parked.
Put(ch, closed, cap, es, e) ==
    IF closed
    THEN [engines |-> ch, eng |-> es, panic |-> TRUE, blocks |-> FALSE]
    ELSE IF Len(ch) < cap
    THEN [engines |-> Append(ch, e), eng |-> es, panic |-> FALSE,
          blocks |-> FALSE]
    ELSE IF e = Nil
    THEN [engines |-> ch, eng |-> es, panic |-> TRUE, blocks |-> FALSE]
    ELSE [engines |-> ch, eng |-> EngineClose(es, e), panic |-> FALSE,
          blocks |-> FALSE]

\* The range loop of Close: every buffered engine is received and closed.
RECURSIVE CloseAll(_, _)
CloseAll(es, ch) ==
    IF ch = <<>> THEN es
    ELSE CloseAll(IF Head(ch) = Nil THEN es ELSE EngineClose(es, Head(ch)),
                  Tail(ch))

\* Variant: Close only closes the channel and leaves the engines in it.
CloseNoDrain(ch, closed, es) ==
    [engines |-> ch, closed |-> TRUE, eng |-> es, panic |-> closed]

\* EnginePool.Close: close the channel, then drain it closing each engine.
\* Closing a closed channel panics before anything is drained.
Close(ch, closed, es) ==
    IF closed
    THEN [engines |-> ch, closed |-> TRUE, eng |-> es, panic |-> TRUE]
    ELSE [engines |-> <<>>, closed |-> TRUE, eng |-> CloseAll(es, ch),
          panic |-> FALSE]

----------------------------------------------------------------------------
\* Initial state: main is about to call NewEnginePool(path, poolSize).

NoResp == [exit |-> "none", status |-> 0, engine |-> Nil, put |-> <<>>,
           panic |-> FALSE, gets |-> 0, cmds |-> <<>>,
           req |-> [UserMove |-> "", CurrentFEN |-> <<>>],
           body |-> [kind |-> "none", UserMoveStatus |-> "",
                     EngineMove |-> "", EngineMoveStatus |-> "",
                     NewFEN |-> <<>>, GameOutcome |-> ""]]
NoFn == [op |-> "none"]
NoCall == [op |-> "none", arg |-> Nil, result |-> "none", val |-> Nil,
           before |-> <<>>, wasClosed |-> FALSE, closes |-> 0]

Init ==
    /\ build \in Builds
    /\ poolSize \in 1..MaxPoolSize
    /\ engines = <<>>
    /\ chClosed = FALSE
    /\ eng = [h \in Handles |-> NoEngine]
    /\ enginePool = "nil"
    /\ mainpc = "new"
    /\ sdWaiting = FALSE
    /\ pc = [r \in Reqs |-> "idle"]
    /\ engine = [r \in Reqs |-> Nil]
    /\ lastResp = NoResp
    /\ lastCall = NoCall
    /\ gets = [r \in Reqs |-> 0]
    /\ cmds = [r \in Reqs |-> <<>>]
    /\ fn = NoFn

----------------------------------------------------------------------------
\* NewEnginePool, as called by main

\* One iteration of the loop that succeeds: start, handshake, send.
NewEngineOk ==
    /\ mainpc = "new"
    /\ Len(engines) < poolSize
    /\ LET e == Len(engines) + 1 IN
        /\ eng' = EngineReady(eng, e)
        /\ engines' = Append(engines, e)
    /\ UNCHANGED <<build, poolSize, chClosed, enginePool, mainpc, sdWaiting,
                   pc, engine, lastResp, lastCall,
                   gets, cmds, fn>>

\* uci.New fails: pool.Close(), return nil, err; main then log.Fatalf's
\* ("init-failed": the process has exited without a pool).
NewEngineStartFails ==
    /\ mainpc = "new"
    /\ Len(engines) < poolSize
    /\ LET c == Close(engines, chClosed, eng) IN
        /\ engines' = c.engines
        /\ chClosed' = c.closed
        /\ eng' = c.eng
    /\ mainpc' = "init-failed"
    /\ UNCHANGED <<build, poolSize, enginePool, sdWaiting, pc, engine,
                   lastResp, lastCall,
                   gets, cmds, fn>>

\* Variant: the engine whose handshake failed is not closed.
NewEngineHandshakeFailsNoClose ==
    /\ mainpc = "new"
    /\ Len(engines) < poolSize
    /\ LET e == Len(engines) + 1
           c == Close(engines, chClosed, EngineStarted(eng, e))
       IN
        /\ engines' = c.engines
        /\ chClosed' = c.closed
        /\ eng' = c.eng
    /\ mainpc' = "init-failed"
    /\ UNCHANGED <<build, poolSize, enginePool, sdWaiting, pc, engine,
                   lastResp, lastCall,
                   gets, cmds, fn>>

\* The handshake fails: engine.Close(), pool.Close(), return nil, err.
NewEngineHandshakeFails ==
    /\ mainpc = "new"
    /\ Len(engines) < poolSize
    /\ LET e == Len(engines) + 1
           c == Close(engines, chClosed,
                      EngineClose(EngineStarted(eng, e), e))
       IN
        /\ engines' = c.engines
        /\ chClosed' = c.closed
        /\ eng' = c.eng
    /\ mainpc' = "init-failed"
    /\ UNCHANGED <<build, poolSize, enginePool, sdWaiting, pc, engine,
                   lastResp, lastCall,
                   gets, cmds, fn>>

\* The loop is over: return pool, nil; main stores it and starts serving.
NewEnginePoolReturns ==
    /\ mainpc = "new"
    /\ Len(engines) = poolSize
    /\ enginePool' = "pool"
    /\ mainpc' = "serve"
    /\ UNCHANGED <<build, poolSize, engines, chClosed, eng, sdWaiting, pc,
                   engine, lastResp, lastCall,
                   gets, cmds, fn>>

----------------------------------------------------------------------------
\* main: signal, srv.Shutdown with a 5 second context, enginePool.Close

InFlight == {r \in Reqs : pc[r] # "idle"}

\* <-quit: the signal arrives; srv.Shutdown closes the listener.
Signal ==
    /\ mainpc = "serve"
    /\ mainpc' = "shutdown"
    /\ UNCHANGED <<build, poolSize, engines, chClosed, eng, enginePool,
                   sdWaiting, pc, engine, lastResp, lastCall,
                   gets, cmds, fn>>

\* Variant: srv.Shutdown returns nil without waiting for the handlers.
ShutdownReturnsNilEarly ==
    /\ mainpc = "shutdown"
    /\ mainpc' = "close"
    /\ sdWaiting' = FALSE
    /\ UNCHANGED <<build, poolSize, engines, chClosed, eng, enginePool, pc,
                   engine, lastResp, lastCall, gets, cmds, fn>>

\* srv.Shutdown finds every connection idle and returns nil.
ShutdownReturnsNil ==
    /\ mainpc = "shutdown"
    /\ InFlight = {}
    /\ mainpc' = "close"
    /\ sdWaiting' = FALSE
    /\ UNCHANGED <<build, poolSize, engines, chClosed, eng, enginePool, pc,
                   engine, lastResp, lastCall,
                   gets, cmds, fn>>

\* srv.Shutdown finds a handler still running and goes on polling.
ShutdownWaits ==
    /\ mainpc = "shutdown"
    /\ InFlight # {}
    /\ ~sdWaiting
    /\ sdWaiting' = TRUE
    /\ UNCHANGED <<build, poolSize, engines, chClosed, eng, enginePool,
                   mainpc, pc, engine, lastResp, lastCall,
                   gets, cmds, fn>>

\* The context expires while srv.Shutdown polls: it returns the context's
\* error and main calls log.Fatal, which exits the process at once.
ShutdownTimesOut ==
    /\ mainpc = "shutdown"
    /\ sdWaiting
    /\ mainpc' = "fatal"
    /\ UNCHANGED <<build, poolSize, engines, chClosed, eng, enginePool,
                   sdWaiting, pc, engine, lastResp, lastCall,
                   gets, cmds, fn>>

\* enginePool.Close() and the return of main.
MainClosesPool ==
    /\ mainpc = "close"
    /\ LET c == Close(engines, chClosed, eng) IN
        /\ engines' = c.engines
        /\ chClosed' = c.closed
        /\ eng' = c.eng
    /\ mainpc' = "exit"
    /\ UNCHANGED <<build, poolSize, enginePool, sdWaiting, pc, engine,
                   lastResp, lastCall,
                   gets, cmds, fn>>

----------------------------------------------------------------------------
\* The chess rules the handler calls (package chess), over a small table of
\* positions. A string is a sequence of tokens; " " is a blank.

Blank == " "
NoPos == "no-position"
NoMove == [uci |-> "", tags |-> {}, to |-> NoPos]

\* Positions of the table: posA, posB, posC and posD are ongoing games,
\* posMate and posDraw are finished ones.
Positions == {"posA", "posB", "posC", "posD", "posMate", "posDraw"}

\* game.ValidMoves(): the legal moves of a position, in the library's order.
ValidMoves(pos) ==
    IF pos = "posA" THEN
        << [uci |-> "a2a3", tags |-> {}, to |-> "posB"],
           [uci |-> "d1h5", tags |-> {"Check"}, to |-> "posC"],
           [uci |-> "e4d5", tags |-> {"Capture"}, to |-> "posD"],
           [uci |-> "e4f5", tags |-> {"Capture", "Check"}, to |-> "posC"],
           [uci |-> "h5f7", tags |-> {"Capture", "Check"}, to |-> "posMate"],
           [uci |-> "g1g2", tags |-> {}, to |-> "posDraw"] >>
    ELSE IF pos = "posB" THEN
        << [uci |-> "a7a6", tags |-> {}, to |-> "posA"],
           [uci |-> "d8h4", tags |-> {"Check"}, to |-> "posC"],
           [uci |-> "d8d2", tags |-> {"Capture", "Check"}, to |-> "posMate"] >>
    ELSE IF pos = "posC" THEN
        << [uci |-> "e8e7", tags |-> {}, to |-> "posA"] >>
    ELSE IF pos = "posD" THEN
        << [uci |-> "d8d5", tags |-> {"Capture"}, to |-> "posA"],
           [uci |-> "h7h6", tags |-> {}, to |-> "posDraw"] >>
    ELSE << >>

\* game.Outcome() and game.Method() of a position.
Outcome(pos) ==
    IF pos = "posMate" THEN "1-0"
    ELSE IF pos = "posDraw" THEN "1/2-1/2"
    ELSE "*"
Method(pos) ==
    IF pos = "posMate" THEN "Checkmate"
    ELSE IF pos = "posDraw" THEN "Stalemate"
    ELSE "NoMethod"

\* strings.TrimSpace as chess.FEN applies it to its argument.
RECURSIVE TrimLeft(_)
TrimLeft(str) ==
    IF Len(str) > 0 /\ Head(str) = Blank THEN TrimLeft(Tail(str)) ELSE str
RECURSIVE TrimRight(_)
TrimRight(str) ==
    IF Len(str) > 0 /\ str[Len(str)] = Blank
    THEN TrimRight(SubSeq(str, 1, Len(str) - 1))
    ELSE str
TrimSpace(str) == TrimRight(TrimLeft(str))

\* chess.FEN(str): the position a string denotes, NoPos when it is no FEN.
DecodeFEN(str) ==
    LET t == TrimSpace(str) IN
    IF Len(t) = 1 /\ t[1] \in Positions THEN t[1] ELSE NoPos

\* game.Position().String(): the canonical string of a position.
EncodeFEN(pos) == <<pos>>

\* The request bodies that bind: user_move and current_fen are present.
\* One request per case of the handler: a string that is no FEN; a string
\* that is no move of posA, with posA in its canonical spelling and with a
\* leading blank; a move in a finished game; a quiet move and a check after
\* which the game goes on; a mate; a stalemate.
Requests ==
    { [UserMove |-> "a2a3", CurrentFEN |-> <<"garbage">>],
      [UserMove |-> "zzzz", CurrentFEN |-> <<"posA">>],
      [UserMove |-> "zzzz", CurrentFEN |-> <<Blank, "posA">>],
      [UserMove |-> "a2a3", CurrentFEN |-> <<"posMate">>],
      [UserMove |-> "a2a3", CurrentFEN |-> <<"posA">>],
      [UserMove |-> "d1h5", CurrentFEN |-> <<Blank, "posA">>],
      [UserMove |-> "h5f7", CurrentFEN |-> <<Blank, "posA">>],
      [UserMove |-> "g1g2", CurrentFEN |-> <<"posA">>] }

\* findMoveByUCI: the first valid move whose notation is uciMove.
FindMoveByUCI(game, uciMove) ==
    LET moves == ValidMoves(game)
        hits == {i \in 1..Len(moves) : moves[i].uci = uciMove}
    IN  IF hits = {} THEN NoMove
        ELSE moves[CHOOSE i \in hits : \A j \in hits : i <= j]

\* Variant: capture is tested before check.
GetMoveStatusCaptureFirst(outcome, method, tags) ==
    IF outcome # "*" THEN
        IF method = "Checkmate" THEN "check-mate" ELSE "draw"
    ELSE IF "Capture" \in tags THEN "capture"
    ELSE IF "Check" \in tags THEN "check"
    ELSE "legal-move"

\* getMoveStatus(game, move), on the outcome and method of the game after
\* the move and the tags of the move.
GetMoveStatus(outcome, method, tags) ==
    IF outcome # "*" THEN
        IF method = "Checkmate" THEN "check-mate"
        ELSE IF method \in {"Stalemate", "FivefoldRepetition",
                            "FiftyMoveRule", "InsufficientMaterial"}
        THEN "draw"
        ELSE "draw"
    ELSE IF "Check" \in tags THEN "check"
    ELSE IF "Capture" \in tags THEN "capture"
    ELSE "legal-move"

\* The response bodies. An error body is gin.H{"error": ...}; the body of
\* the reply after a search is computed by ChooseReply below and is not kept
\* in the server state.
NoBody == [kind |-> "none", UserMoveStatus |-> "", EngineMove |-> "",
           EngineMoveStatus |-> "", NewFEN |-> <<>>, GameOutcome |-> ""]
ErrorBody == [NoBody EXCEPT !.kind = "error"]
EngineReplyBody == [NoBody EXCEPT !.kind = "engine-reply"]

\* Variant: the illegal-move response carries the decoded position's string.
IllegalMoveResponseReencoded(req, game) ==
    [kind |-> "MoveResponse", UserMoveStatus |-> "illegal-move",
     EngineMove |-> "", EngineMoveStatus |-> "",
     NewFEN |-> EncodeFEN(game), GameOutcome |-> Outcome(game)]

\* The MoveResponse of an illegal user move.
IllegalMoveResponse(req, game) ==
    [kind |-> "MoveResponse", UserMoveStatus |-> "illegal-move",
     EngineMove |-> "", EngineMoveStatus |-> "",
     NewFEN |-> req.CurrentFEN, GameOutcome |-> Outcome(game)]

\* Variant: the user's move is classified by its tags alone.
GameOverResponseTagsOnly(game, userMove) ==
    [kind |-> "MoveResponse",
     UserMoveStatus |-> GetMoveStatus("*", "NoMethod", userMove.tags),
     EngineMove |-> "", EngineMoveStatus |-> "",
     NewFEN |-> EncodeFEN(game), GameOutcome |-> Outcome(game)]

\* The MoveResponse when the game is over after the user's move.
GameOverResponse(game, userMove) ==
    [kind |-> "MoveResponse",
     UserMoveStatus |-> GetMoveStatus(Outcome(game), Method(game),
                                      userMove.tags),
     EngineMove |-> "", EngineMoveStatus |-> "",
     NewFEN |-> EncodeFEN(game), GameOutcome |-> Outcome(game)]

----------------------------------------------------------------------------
\* moveHandler, one instance per request in flight

\* The process is running: handlers only run between the start of serving
\* and the exit of main or log.Fatal.
Running == mainpc \in {"serve", "shutdown"}

\* c.JSON(...) and return before enginePool.Get(): nothing is deferred.
ReturnEarly(r, exit, status, req, body) ==
    /\ lastResp' = [exit |-> exit, status |-> status, engine |-> Nil,
                    put |-> <<>>, panic |-> FALSE, gets |-> gets[r],
                    cmds |-> cmds[r], req |-> req, body |-> body]
    /\ UNCHANGED <<build, poolSize, engines, chClosed, eng, enginePool,
                   mainpc, sdWaiting, pc, engine, lastCall,
                   gets, cmds, fn>>

\* Variant: an explicit Put before the return on top of the deferred one.
ReturnDeferredTwice(r, exit, status, ran) ==
    /\ LET p1 == Put(engines, chClosed, poolSize, eng, engine[r])
           p == Put(p1.engines, chClosed, poolSize, p1.eng, engine[r])
       IN
        /\ engines' = p.engines
        /\ eng' = p.eng
        /\ lastResp' = [exit |-> exit, status |-> status,
                        engine |-> engine[r],
                        put |-> <<engine[r], engine[r]>>,
                        panic |-> p.panic, gets |-> gets[r], cmds |-> ran,
                        req |-> NoResp.req,
                        body |-> IF status = StatusOK THEN EngineReplyBody
                                 ELSE ErrorBody]
    /\ pc' = [pc EXCEPT ![r] = "idle"]
    /\ engine' = [engine EXCEPT ![r] = Nil]
    /\ gets' = [gets EXCEPT ![r] = 0]
    /\ cmds' = [cmds EXCEPT ![r] = <<>>]
    /\ UNCHANGED <<build, poolSize, chClosed, enginePool, mainpc, sdWaiting,
                   lastCall, fn>>

\* c.JSON(...) and return after enginePool.Get(): the deferred
\* enginePool.Put(engine) runs with the engine this request received. ran is
\* the log of the engine.Run calls of this checkout, the last one included.
ReturnDeferred(r, exit, status, ran) ==
    /\ LET p == Put(engines, chClosed, poolSize, eng, engine[r]) IN
        /\ engines' = p.engines
        /\ eng' = p.eng
        /\ lastResp' = [exit |-> exit, status |-> status,
                        engine |-> engine[r], put |-> <<engine[r]>>,
                        panic |-> p.panic, gets |-> gets[r], cmds |-> ran,
                        req |-> NoResp.req,
                        body |-> IF status = StatusOK THEN EngineReplyBody
                                 ELSE ErrorBody]
    /\ pc' = [pc EXCEPT ![r] = "idle"]
    /\ engine' = [engine EXCEPT ![r] = Nil]
    /\ gets' = [gets EXCEPT ![r] = 0]
    /\ cmds' = [cmds EXCEPT ![r] = <<>>]
    /\ UNCHANGED <<build, poolSize, chClosed, enginePool, mainpc, sdWaiting,
                   lastCall, fn>>

\* ShouldBindJSON fails: the body is no JSON object or lacks a required
\* field.
BadBody(r) ==
    /\ mainpc = "serve" /\ pc[r] = "idle"
    /\ ReturnEarly(r, "bad-body", StatusBadRequest, NoResp.req, ErrorBody)

\* chess.FEN fails.
BadFEN(r) ==
    /\ mainpc = "serve" /\ pc[r] = "idle"
    /\ \E req \in Requests :
        /\ DecodeFEN(req.CurrentFEN) = NoPos
        /\ ReturnEarly(r, "bad-fen", StatusBadRequest, req, ErrorBody)

\* findMoveByUCI finds no valid move with that notation.
IllegalMove(r) ==
    /\ mainpc = "serve" /\ pc[r] = "idle"
    /\ \E req \in Requests :
        LET game == DecodeFEN(req.CurrentFEN) IN
        /\ game # NoPos
        /\ FindMoveByUCI(game, req.UserMove) = NoMove
        /\ ReturnEarly(r, "illegal-move", StatusOK, req,
                       IllegalMoveResponse(req, game))

\* game.Move(userMove) fails.
UserMoveApplyFails(r) ==
    /\ mainpc = "serve" /\ pc[r] = "idle"
    /\ \E req \in Requests :
        LET game == DecodeFEN(req.CurrentFEN) IN
        /\ game # NoPos
        /\ FindMoveByUCI(game, req.UserMove) # NoMove
    /\ ReturnEarly(r, "user-apply-failed", StatusInternalServerError,
                   NoResp.req, ErrorBody)

\* The game has an outcome after the user's move.
GameOverAfterUserMove(r) ==
    /\ mainpc = "serve" /\ pc[r] = "idle"
    /\ \E req \in Requests :
        LET game == DecodeFEN(req.CurrentFEN)
            userMove == FindMoveByUCI(game, req.UserMove)
        IN
        /\ game # NoPos
        /\ userMove # NoMove
        /\ Outcome(userMove.to) # "*"
        /\ ReturnEarly(r, "game-over", StatusOK, req,
                       GameOverResponse(userMove.to, userMove))

\* The user's move is applied and the game goes on: the handler reaches
\* enginePool.Get().
ReachGet(r) ==
    /\ mainpc = "serve" /\ pc[r] = "idle"
    /\ \E req \in Requests :
        LET game == DecodeFEN(req.CurrentFEN)
            userMove == FindMoveByUCI(game, req.UserMove)
        IN
        /\ game # NoPos
        /\ userMove # NoMove
        /\ Outcome(userMove.to) = "*"
    /\ pc' = [pc EXCEPT ![r] = "get"]
    /\ UNCHANGED <<build, poolSize, engines, chClosed, eng, enginePool,
                   mainpc, sdWaiting, engine, lastResp, lastCall,
                   gets, cmds, fn>>

\* engine := enginePool.Get(); defer enginePool.Put(engine). A nil engine
\* makes the first engine.Run panic, and the deferred Put runs with nil.
Get(r) ==
    /\ Running /\ pc[r] = "get"
    /\ ~GetBlocks(engines, chClosed)
    /\ LET e == GetValue(engines)
           p == Put(GetRest(engines), chClosed, poolSize, eng, Nil)
       IN
        IF e = Nil
        THEN /\ engines' = p.engines
             /\ eng' = p.eng
             /\ pc' = [pc EXCEPT ![r] = "idle"]
             /\ engine' = engine
             /\ gets' = gets
             /\ lastResp' = [exit |-> "panic",
                             status |-> StatusInternalServerError,
                             engine |-> Nil, put |-> <<Nil>>,
                             panic |-> p.panic, gets |-> gets[r] + 1,
                             cmds |-> cmds[r], req |-> NoResp.req,
                             body |-> NoBody]
        ELSE /\ engines' = GetRest(engines)
             /\ eng' = eng
             /\ pc' = [pc EXCEPT ![r] =
                          IF build = "part_000" THEN "elo" ELSE "search"]
             /\ engine' = [engine EXCEPT ![r] = e]
             /\ gets' = [gets EXCEPT ![r] = @ + 1]
             /\ lastResp' = lastResp
    /\ UNCHANGED <<build, poolSize, chClosed, enginePool, mainpc, sdWaiting,
                   lastCall, cmds, fn>>

\* engine.Run(eloCmds...) succeeds.
SetEloOk(r) ==
    /\ Running /\ pc[r] = "elo"
    /\ pc' = [pc EXCEPT ![r] = "search"]
    /\ cmds' = [cmds EXCEPT ![r] = Append(@, "setoption")]
    /\ UNCHANGED <<build, poolSize, engines, chClosed, eng, enginePool,
                   mainpc, sdWaiting, engine, lastResp, lastCall, gets, fn>>

\* engine.Run(eloCmds...) fails.
SetEloFails(r) ==
    /\ Running /\ pc[r] = "elo"
    /\ ReturnDeferred(r, "elo-failed", StatusInternalServerError,
                      Append(cmds[r], "setoption"))

\* Variant: the failed search is submitted a second time before the return.
SearchFailsRetries(r) ==
    /\ Running /\ pc[r] = "search"
    /\ ReturnDeferred(r, "search-failed", StatusInternalServerError,
                      Append(Append(cmds[r], "go"), "go"))

\* engine.Run(cmdPos, cmdGo) fails.
SearchFails(r) ==
    /\ Running /\ pc[r] = "search"
    /\ ReturnDeferred(r, "search-failed", StatusInternalServerError,
                      Append(cmds[r], "go"))

\* Variant: the Put is an explicit call at the end of the handler instead of
\* a deferred one, so this early return skips it.
NoBestMoveLeaks(r) ==
    /\ Running /\ pc[r] = "search"
    /\ lastResp' = [exit |-> "no-best-move",
                    status |-> StatusInternalServerError,
                    engine |-> engine[r], put |-> <<>>, panic |-> FALSE,
                    gets |-> gets[r], cmds |-> Append(cmds[r], "go"),
                    req |-> NoResp.req, body |-> ErrorBody]
    /\ pc' = [pc EXCEPT ![r] = "idle"]
    /\ engine' = [engine EXCEPT ![r] = Nil]
    /\ gets' = [gets EXCEPT ![r] = 0]
    /\ cmds' = [cmds EXCEPT ![r] = <<>>]
    /\ UNCHANGED <<build, poolSize, engines, chClosed, eng, enginePool,
                   mainpc, sdWaiting, lastCall, fn>>

\* The search ran and results.BestMove is nil.
NoBestMove(r) ==
    /\ Running /\ pc[r] = "search"
    /\ ReturnDeferred(r, "no-best-move", StatusInternalServerError,
                      Append(cmds[r], "go"))

\* Variant: the handler asks the pool for a second engine for the reply
\* while it holds the first.
SearchOkAcquiresAgain(r) ==
    /\ Running /\ pc[r] = "search"
    /\ pc' = [pc EXCEPT ![r] = "get"]
    /\ cmds' = [cmds EXCEPT ![r] = Append(@, "go")]
    /\ UNCHANGED <<build, poolSize, engines, chClosed, eng, enginePool,
                   mainpc, sdWaiting, engine, lastResp, lastCall, gets, fn>>

\* The search ran and returned a best move.
SearchOk(r) ==
    /\ Running /\ pc[r] = "search"
    /\ pc' = [pc EXCEPT ![r] = "apply"]
    /\ cmds' = [cmds EXCEPT ![r] = Append(@, "go")]
    /\ UNCHANGED <<build, poolSize, engines, chClosed, eng, enginePool,
                   mainpc, sdWaiting, engine, lastResp, lastCall, gets, fn>>

\* game.Move(bestMove) fails.
EngineMoveApplyFails(r) ==
    /\ Running /\ pc[r] = "apply"
    /\ ReturnDeferred(r, "engine-apply-failed", StatusInternalServerError,
                      cmds[r])

\* The reply move is applied and the response written.
EngineMoveReplied(r) ==
    /\ Running /\ pc[r] = "apply"
    /\ ReturnDeferred(r, "replied", StatusOK, cmds[r])

----------------------------------------------------------------------------
Next ==
    \/ NewEngineOk
    \/ NewEngineStartFails
    \/ NewEngineHandshakeFails
    \/ NewEnginePoolReturns
    \/ Signal
    \/ ShutdownReturnsNil
    \/ ShutdownWaits
    \/ ShutdownTimesOut
    \/ MainClosesPool
    \/ \E r \in Reqs :
        \/ BadBody(r)
        \/ BadFEN(r)
        \/ IllegalMove(r)
        \/ UserMoveApplyFails(r)
        \/ GameOverAfterUserMove(r)
        \/ ReachGet(r)
        \/ Get(r)
        \/ SetEloOk(r)
        \/ SetEloFails(r)
        \/ SearchFails(r)
        \/ NoBestMove(r)
        \/ SearchOk(r)
        \/ EngineMoveApplyFails(r)
        \/ EngineMoveReplied(r)

Spec == Init /\ [][Next]_vars

----------------------------------------------------------------------------
\* The pool API called directly: Get, Put and Close on a pool that
\* NewEnginePool returned, one call at a time, in any order and with any
\* engine of the pool as the argument of Put (also one that is not checked
\* out, which is how Put meets a full channel).

InitPool ==
    /\ build = "part_000"
    /\ poolSize \in 1..MaxPoolSize
    /\ engines = [i \in 1..poolSize |-> i]
    /\ chClosed = FALSE
    /\ eng = [h \in Handles |->
                IF h <= poolSize THEN [state |-> "ready", closes |-> 0]
                ELSE NoEngine]
    /\ enginePool = "pool"
    /\ mainpc = "api"
    /\ sdWaiting = FALSE
    /\ pc = [r \in Reqs |-> "idle"]
    /\ engine = [r \in Reqs |-> Nil]
    /\ lastResp = NoResp
    /\ lastCall = NoCall
    /\ gets = [r \in Reqs |-> 0]
    /\ cmds = [r \in Reqs |-> <<>>]
    /\ fn = NoFn

ApiUnchanged ==
    UNCHANGED <<build, poolSize, enginePool, mainpc, sdWaiting, pc, engine,
                lastResp, gets, cmds, fn>>

\* p.Get() returns.
ApiGet ==
    /\ mainpc = "api"
    /\ ~GetBlocks(engines, chClosed)
    /\ lastCall' = [op |-> "Get", arg |-> Nil, result |-> "returned",
                    val |-> GetValue(engines), before |-> engines,
                    wasClosed |-> chClosed, closes |-> 0]
    /\ engines' = GetRest(engines)
    /\ UNCHANGED <<chClosed, eng>>
    /\ ApiUnchanged

\* p.Get() parks the caller: nothing changes until a Put.
ApiGetBlocks ==
    /\ mainpc = "api"
    /\ GetBlocks(engines, chClosed)
    /\ lastCall' = [op |-> "Get", arg |-> Nil, result |-> "blocked",
                    val |-> Nil, before |-> engines,
                    wasClosed |-> chClosed, closes |-> 0]
    /\ UNCHANGED <<engines, chClosed, eng>>
    /\ ApiUnchanged

\* p.Put(e)
ApiPut(e) ==
    /\ mainpc = "api"
    /\ eng[e].closes < MaxCloses
    /\ LET p == Put(engines, chClosed, poolSize, eng, e) IN
        /\ lastCall' = [op |-> "Put", arg |-> e,
                        result |-> IF p.blocks THEN "blocked"
                                   ELSE IF p.panic THEN "panic"
                                   ELSE "returned",
                        val |-> Nil, before |-> engines,
                        wasClosed |-> chClosed, closes |-> eng[e].closes]
        /\ engines' = IF p.blocks THEN engines ELSE p.engines
        /\ eng' = IF p.blocks THEN eng ELSE p.eng
    /\ UNCHANGED chClosed
    /\ ApiUnchanged

\* p.Close()
ApiClose ==
    /\ mainpc = "api"
    /\ LET c == Close(engines, chClosed, eng) IN
        /\ lastCall' = [op |-> "Close", arg |-> Nil,
                        result |-> IF c.panic THEN "panic" ELSE "returned",
                        val |-> Nil, before |-> engines,
                        wasClosed |-> chClosed, closes |-> 0]
        /\ engines' = c.engines
        /\ chClosed' = c.closed
        /\ eng' = c.eng
    /\ ApiUnchanged

NextPool ==
    \/ ApiGet
    \/ ApiGetBlocks
    \/ \E e \in 1..poolSize : ApiPut(e)
    \/ ApiClose

SpecPool == InitPool /\ [][NextPool]_vars

----------------------------------------------------------------------------
\* The pure steps of moveHandler, applied to inputs of every kind: the
\* classification of a move, the blunder chance of a rating, and the choice
\* and application of the reply.

MaxElo == 2100
minBlunderElo == 400
maxBlunderElo == 2000
maxBlunderChance == 40
RandRange == 100

Outcomes == {"*", "1-0", "0-1", "1/2-1/2"}
Methods == {"NoMethod", "Checkmate", "Resignation", "DrawOffer", "Stalemate",
            "ThreefoldRepetition", "FivefoldRepetition", "FiftyMoveRule",
            "InsufficientMaterial"}
MoveTags == {"Check", "Capture", "EnPassant", "KingSideCastle"}

\* The ratings at which (1.0 - progress) * 40 in float64 falls just below
\* the whole number that the exact quotient (2000 - elo) / 40 is, so that
\* int() truncates to one less: progress = (elo - 400) / 1600 is rounded to
\* the nearest double, and at these four ratings the rounded difference
\* times 40 is 12.999..., 7.999..., 3.999... and 2.999...
FloatShortfall == {1480, 1680, 1840, 1880}

\* Variant: the chance grows with the rating.
BlunderChanceRising(elo) ==
    IF elo >= minBlunderElo /\ elo < maxBlunderElo
    THEN ((elo - minBlunderElo) * maxBlunderChance)
             \div (maxBlunderElo - minBlunderElo)
    ELSE 0

\* blunderChance of a request with rating elo:
\* int((1.0 - float64(elo-400)/float64(2000-400)) * float64(40)) inside
\* [400, 2000), and the initial 0 outside it.
BlunderChance(elo) ==
    IF elo >= minBlunderElo /\ elo < maxBlunderElo
    THEN LET exact == ((maxBlunderElo - elo) * maxBlunderChance)
                          \div (maxBlunderElo - minBlunderElo)
         IN  IF elo \in FloatShortfall THEN exact - 1 ELSE exact
    ELSE 0

\* Variant: the blunder is taken also when the draw equals the chance.
ChooseReplyInclusive(best, d, p, allMoves, idx) ==
    IF d <= p
    THEN IF Len(allMoves) > 0 THEN allMoves[idx] ELSE best
    ELSE best

\* The reply after the search: the engine's best move, replaced by the
\* valid move at the drawn index when the draw d is below the chance p.
ChooseReply(best, d, p, allMoves, idx) ==
    IF d < p
    THEN IF Len(allMoves) > 0 THEN allMoves[idx] ELSE best
    ELSE best

\* game.Move(m) succeeds exactly for a valid move of the position.
MoveApplies(game, m) ==
    \E i \in 1..Len(ValidMoves(game)) : ValidMoves(game)[i] = m

\* The positions a search is run on: after a legal user move, no outcome.
SearchPositions ==
    {q \in Positions :
        /\ Outcome(q) = "*"
        /\ \E g \in Positions : \E i \in 1..Len(ValidMoves(g)) :
               ValidMoves(g)[i].to = q}

\* What results.BestMove can be when it is not nil: a valid move of the
\* position, or a move that is none.
StrayMove == [uci |-> "a1a1", tags |-> {}, to |-> "posA"]
BestMoves(game) ==
    {ValidMoves(game)[i] : i \in 1..Len(ValidMoves(game))} \cup {StrayMove}

InitFn ==
    /\ build = "part_000"
    /\ poolSize \in 1..MaxPoolSize
    /\ engines = [i \in 1..poolSize |-> i]
    /\ chClosed = FALSE
    /\ eng = [h \in Handles |->
                IF h <= poolSize THEN [state |-> "ready", closes |-> 0]
                ELSE NoEngine]
    /\ enginePool = "pool"
    /\ mainpc = "fn"
    /\ sdWaiting = FALSE
    /\ pc = [r \in Reqs |-> "idle"]
    /\ engine = [r \in Reqs |-> Nil]
    /\ lastResp = NoResp
    /\ lastCall = NoCall
    /\ gets = [r \in Reqs |-> 0]
    /\ cmds = [r \in Reqs |-> <<>>]
    /\ fn = NoFn

FnUnchanged ==
    UNCHANGED <<build, poolSize, engines, chClosed, eng, enginePool, mainpc,
                sdWaiting, pc, engine, lastResp, lastCall, gets, cmds>>

\* getMoveStatus(game, move) is called.
FnGetMoveStatus ==
    /\ mainpc = "fn" /\ fn = NoFn
    /\ \E outcome \in Outcomes, method \in Methods, tags \in SUBSET MoveTags :
        fn' = [op |-> "getMoveStatus", outcome |-> outcome,
               method |-> method, tags |-> tags,
               result |-> GetMoveStatus(outcome, method, tags)]
    /\ FnUnchanged

\* blunderChance is computed for a request with rating elo and for the next
\* rating.
FnBlunderChance ==
    /\ mainpc = "fn" /\ fn = NoFn
    /\ \E elo \in 0..MaxElo :
        fn' = [op |-> "blunderChance", elo |-> elo,
               result |-> BlunderChance(elo),
               next |-> BlunderChance(elo + 1)]
    /\ FnUnchanged

\* The reply is chosen and game.Move(bestMove) is called.
FnReply ==
    /\ mainpc = "fn" /\ fn = NoFn
    /\ \E game \in SearchPositions, d \in 0..(RandRange - 1),
          p \in {BlunderChance(e) : e \in 0..MaxElo} :
        \E best \in BestMoves(game), idx \in 1..Len(ValidMoves(game)) :
            LET reply == ChooseReply(best, d, p, ValidMoves(game), idx) IN
            fn' = [op |-> "reply", game |-> game, best |-> best, d |-> d,
                   p |-> p, reply |-> reply,
                   applied |-> MoveApplies(game, reply)]
    /\ FnUnchanged

\* The handler returns.
FnReturn ==
    /\ mainpc = "fn" /\ fn # NoFn
    /\ fn' = NoFn
    /\ FnUnchanged

NextFn ==
    \/ FnGetMoveStatus
    \/ FnBlunderChance
    \/ FnReply
    \/ FnReturn

SpecFn == InitFn /\ [][NextFn]_vars

----------------------------------------------------------------------------
\* Fair scheduling of the receivers: a receive from a channel that holds a
\* value does not park, and the Go scheduler runs every runnable goroutine,
\* so a handler whose receive stays possible eventually performs it.
FairSpec == Spec /\ \A r \in Reqs : WF_vars(Get(r))

----------------------------------------------------------------------------
\* Vocabulary of the properties

\* The requests that hold an engine, and those that hold engine h.
CheckedOut == {r \in Reqs : engine[r] # Nil}
Holders(h) == {r \in Reqs : engine[r] = h}

\* The requests parked in enginePool.Get().
Blocked == {r \in Reqs : pc[r] = "get"}

\* How often engine h sits in the channel.
Occ(ch, h) == Cardinality({i \in 1..Len(ch) : ch[i] = h})

\* The pool exists and has not been shut down.
PoolLive == enginePool = "pool" /\ ~chClosed

\* The exits of moveHandler that lie after enginePool.Get().
PostGetExits == {"elo-failed", "search-failed", "no-best-move",
                 "engine-apply-failed", "replied"}

\* n calls of Get in a row: none of them blocks and each returns an engine.
RECURSIVE GetsInARow(_, _, _)
GetsInARow(ch, closed, n) ==
    IF n = 0 THEN TRUE
    ELSE /\ ~GetBlocks(ch, closed)
         /\ GetValue(ch) # Nil
         /\ GetsInARow(GetRest(ch), closed, n - 1)

----------------------------------------------------------------------------
\* C1: at most poolSize requests hold an engine at once, and whenever the
\* process runs and every checked-out engine has been released, poolSize
\* calls of Get in a row each return an engine without blocking.
C1_BoundedCheckout ==
    /\ Cardinality(CheckedOut) <= poolSize
    /\ (Running /\ CheckedOut = {}) =>
           GetsInARow(engines, chClosed, poolSize)

\* Engines were checked out and all of them are back in a pool of two.
C1_Witness ==
    /\ Running
    /\ poolSize = MaxPoolSize
    /\ CheckedOut = {}
    /\ lastResp.exit \in PostGetExits
    /\ Len(engines) = poolSize

\* C2: while the pool exists and is not shut down, idle plus checked-out
\* engines are poolSize in number, every engine of the pool is still running
\* (none destroyed) and none sits twice in the idle set.
C2_Conservation ==
    PoolLive =>
        /\ Len(engines) + Cardinality(CheckedOut) = poolSize
        /\ \A h \in 1..poolSize : eng[h] = [state |-> "ready", closes |-> 0]
        /\ \A h \in Handles : Occ(engines, h) <= 1
        /\ \A r \in Reqs : engine[r] \in {Nil} \cup (1..poolSize)

\* Some engines idle, some checked out, after at least one release.
C2_Witness ==
    /\ PoolLive
    /\ lastResp.put # <<>>
    /\ CheckedOut # {}
    /\ Len(engines) > 0

\* C3: no engine is held by two requests, none is idle and held at once, a
\* holder is a request in flight past Get, and while the pool is live every
\* engine of it is exactly one of the two: idle, or held by one request.
C3_ExclusiveHolder ==
    \A h \in Handles :
        /\ Cardinality(Holders(h)) <= 1
        /\ ~(Occ(engines, h) > 0 /\ Holders(h) # {})
        /\ \A r \in Holders(h) : pc[r] \in {"elo", "search", "apply"}
        /\ (PoolLive /\ h <= poolSize) =>
               (Occ(engines, h) = 1) # (Cardinality(Holders(h)) = 1)

\* Two requests hold the two engines while a third is parked in Get, after
\* an engine has been through a release.
C3_Witness ==
    /\ Cardinality(CheckedOut) = MaxPoolSize
    /\ Blocked # {}
    /\ lastResp.put # <<>>

\* C4: a request that ended on an exit after Get released the engine it had
\* received, that one and once, without a panic, and the engine is back in
\* circulation; an engine not yet released is not in the idle set; a request
\* that is not past Get holds nothing.
C4_ReleasedOnEveryExit ==
    /\ lastResp.exit \in PostGetExits =>
           /\ lastResp.engine \in 1..poolSize
           /\ lastResp.put = <<lastResp.engine>>
           /\ ~lastResp.panic
           /\ PoolLive =>
                  Occ(engines, lastResp.engine)
                      + Cardinality(Holders(lastResp.engine)) = 1
    /\ lastResp.exit \notin PostGetExits \cup {"panic"} =>
           lastResp.put = <<>>
    /\ \A r \in Reqs :
           /\ engine[r] # Nil => Occ(engines, engine[r]) = 0
           /\ pc[r] \in {"idle", "get"} => engine[r] = Nil

\* A request ended because the engine returned no best move, and its engine
\* is idle again.
C4_Witness ==
    /\ lastResp.exit = "no-best-move"
    /\ lastResp.put = <<lastResp.engine>>
    /\ Occ(engines, lastResp.engine) = 1

\* C5: Get never fails. A request past Get holds a running engine of the
\* pool and no handler has ended in a panic; a handler leaves Get only by
\* receiving the oldest idle engine, which leaves the idle set; and a
\* handler is parked in Get only when the idle set is empty and poolSize
\* engines are checked out.
C5_GetNeverFails ==
    /\ [](/\ lastResp.exit # "panic"
          /\ \A r \in Reqs :
                /\ pc[r] \in {"elo", "search", "apply"} =>
                       /\ engine[r] \in 1..poolSize
                       /\ eng[engine[r]].state = "ready"
                /\ (pc[r] = "get" /\ GetBlocks(engines, chClosed)) =>
                       /\ Len(engines) = 0
                       /\ Cardinality(CheckedOut) = poolSize)
    /\ [][\A r \in Reqs :
            (pc[r] = "get" /\ pc'[r] # "get") =>
                /\ Len(engines) > 0
                /\ Head(engines) \in 1..poolSize
                /\ eng[Head(engines)].state = "ready"
                /\ engine'[r] = Head(engines)
                /\ engines' = Tail(engines)]_vars

\* A handler is parked in Get while all engines are checked out.
C5_Witness ==
    /\ Running
    /\ \E r \in Reqs : pc[r] = "get" /\ GetBlocks(engines, chClosed)
    /\ Cardinality(CheckedOut) = poolSize

----------------------------------------------------------------------------
\* C6: under fair scheduling of the receivers, whenever the process runs,
\* a handler is waiting in Get and an engine is idle, eventually that
\* handler has left Get with an engine, or the idle engines have been taken,
\* or the process has exited; and while the process runs the idle set
\* shrinks only by a waiting handler leaving Get with its oldest engine. So
\* no handler waits forever beside an idle engine: a released engine goes to
\* some waiting handler.
C6_NoGroupStarvation ==
    /\ \A r \in Reqs :
           (Running /\ pc[r] = "get" /\ Len(engines) > 0)
               ~> (~Running \/ pc[r] # "get" \/ Len(engines) = 0)
    /\ [][(Running /\ Len(engines') < Len(engines)) =>
             \E r \in Blocked :
                 /\ pc'[r] # "get"
                 /\ engine'[r] = Head(engines)
                 /\ engines' = Tail(engines)]_vars

\* A released engine is idle while a handler is parked in Get.
C6_Witness ==
    /\ Running
    /\ Blocked # {}
    /\ Len(engines) > 0
    /\ lastResp.exit \in PostGetExits

\* C7: Put on a pool that is not shut down returns without parking the
\* caller; with room in the idle set the engine becomes its newest member
\* and is not closed; with the idle set full the idle set is unchanged and
\* the engine is closed once more. The idle set never exceeds poolSize.
C7_PutNeverBlocksNorOverflows ==
    /\ Len(engines) <= poolSize
    /\ lastCall.op = "Put" => lastCall.result # "blocked"
    /\ (lastCall.op = "Put" /\ ~lastCall.wasClosed) =>
           /\ lastCall.result = "returned"
           /\ IF Len(lastCall.before) < poolSize
              THEN /\ engines = Append(lastCall.before, lastCall.arg)
                   /\ eng[lastCall.arg].closes = lastCall.closes
              ELSE /\ engines = lastCall.before
                   /\ eng[lastCall.arg].state = "closed"
                   /\ eng[lastCall.arg].closes = lastCall.closes + 1

\* Put met a full idle set and closed the engine.
C7_Witness ==
    /\ lastCall.op = "Put"
    /\ ~lastCall.wasClosed
    /\ Len(lastCall.before) = poolSize
    /\ engines = lastCall.before
    /\ eng[lastCall.arg].state = "closed"

\* C8: NewEnginePool is atomic. While it runs and after it failed the
\* global holds no pool; after a failure the channel is closed and empty and
\* every engine that was created is closed, once; a failure closes at least
\* the engines that were idle; on success the pool holds poolSize distinct
\* initialized engines, all idle.
C8_AtomicConstruction ==
    /\ [](/\ mainpc \in {"new", "init-failed"} => enginePool = "nil"
          /\ mainpc = "init-failed" =>
                /\ engines = <<>>
                /\ chClosed
                /\ \A h \in Handles :
                      \/ eng[h] = NoEngine
                      \/ eng[h] = [state |-> "closed", closes |-> 1])
    /\ [][/\ (mainpc = "new" /\ mainpc' = "init-failed") =>
                /\ \A i \in 1..Len(engines) : eng'[engines[i]].state = "closed"
                /\ \A h \in Handles :
                      eng'[h].state = "closed" => h <= Len(engines) + 1
          /\ (mainpc = "new" /\ mainpc' = "serve") =>
                /\ enginePool' = "pool"
                /\ ~chClosed'
                /\ engines' = [i \in 1..poolSize |-> i]
                /\ \A h \in 1..poolSize :
                      eng'[h] = [state |-> "ready", closes |-> 0]]_vars

\* The handshake of the last engine failed after the others had been added.
C8_Witness ==
    /\ mainpc = "init-failed"
    /\ poolSize = MaxPoolSize
    /\ \A h \in 1..poolSize : eng[h] = [state |-> "closed", closes |-> 1]

\* C9: Close closes every engine that is idle when it is called and leaves
\* the idle set empty; once the pool is closed the idle set stays empty, a
\* Get returns no engine and a Put adds none.
C9_CloseStopsThePool ==
    /\ chClosed => engines = <<>>
    /\ (lastCall.op = "Close" /\ lastCall.result = "returned") =>
           \A i \in 1..Len(lastCall.before) :
               eng[lastCall.before[i]].state = "closed"
    /\ (lastCall.op = "Get" /\ lastCall.wasClosed) => lastCall.val = Nil
    /\ (lastCall.op = "Put" /\ lastCall.wasClosed) =>
           /\ engines = lastCall.before
           /\ lastCall.result = "panic"

\* A Put arrives after Close had closed a pool with idle engines.
C9_Witness ==
    /\ chClosed
    /\ lastCall.op = "Put"
    /\ lastCall.wasClosed
    /\ \E h \in 1..poolSize : eng[h].state = "closed"

\* C10: once the process has ended after the shutdown signal, by the return
\* of main or by log.Fatal, every engine of the pool has been closed.
C10_ShutdownDestroysEngines ==
    mainpc \in {"exit", "fatal"} =>
        \A h \in 1..poolSize : eng[h].state = "closed"


----------------------------------------------------------------------------
\* The request of the latest response named a position that decodes and a
\* candidate move that is none of its valid moves.
IllegalCandidate(resp) ==
    /\ resp.req \in Requests
    /\ DecodeFEN(resp.req.CurrentFEN) # NoPos
    /\ FindMoveByUCI(DecodeFEN(resp.req.CurrentFEN), resp.req.UserMove)
           = NoMove

\* C11: a request whose candidate move is illegal in the supplied position
\* is answered with HTTP 200, user_move_status "illegal-move", new_fen equal
\* to the position string of the request, empty engine_move and
\* engine_move_status; the request acquires no handle and the idle set of
\* the pool, the engines and the other handlers' engines stay as they were.
C11_IllegalMoveEchoesInput ==
    /\ [](IllegalCandidate(lastResp) =>
            /\ lastResp.status = StatusOK
            /\ lastResp.body.kind = "MoveResponse"
            /\ lastResp.body.UserMoveStatus = "illegal-move"
            /\ lastResp.body.NewFEN = lastResp.req.CurrentFEN
            /\ lastResp.body.EngineMove = ""
            /\ lastResp.body.EngineMoveStatus = ""
            /\ lastResp.gets = 0
            /\ lastResp.engine = Nil
            /\ lastResp.put = <<>>)
    /\ [][(lastResp' # lastResp /\ IllegalCandidate(lastResp')) =>
            UNCHANGED <<engines, eng, chClosed, engine, gets, pc>>]_vars

\* An illegal move was answered for a position string that is not the
\* canonical one, while another handler holds an engine.
C11_Witness ==
    /\ IllegalCandidate(lastResp)
    /\ lastResp.req.CurrentFEN = <<Blank, "posA">>
    /\ lastResp.body.NewFEN # EncodeFEN(DecodeFEN(lastResp.req.CurrentFEN))
    /\ CheckedOut # {}

----------------------------------------------------------------------------
\* C12: the classification of a move is determined by whether the game is
\* over, the method of its end, and the check and capture tags of the move,
\* and is exactly one label: "check-mate" when the game ended by checkmate,
\* "draw" when it ended any other way, otherwise "check" when the check tag
\* is set (also beside a capture tag), otherwise "capture" when the capture
\* tag is set, otherwise "legal-move".
C12_ClassificationPriority ==
    fn.op = "getMoveStatus" =>
        LET terminal == fn.outcome # "*"
            check == "Check" \in fn.tags
            capture == "Capture" \in fn.tags
        IN  /\ fn.result \in {"check-mate", "draw", "check", "capture",
                              "legal-move"}
            /\ (fn.result = "check-mate") <=>
                   (terminal /\ fn.method = "Checkmate")
            /\ (fn.result = "draw") <=> (terminal /\ fn.method # "Checkmate")
            /\ (fn.result = "check") <=> (~terminal /\ check)
            /\ (fn.result = "capture") <=> (~terminal /\ ~check /\ capture)
            /\ (fn.result = "legal-move") <=>
                   (~terminal /\ ~check /\ ~capture)

\* A move with both tags in a game that goes on was classified.
C12_Witness ==
    /\ fn.op = "getMoveStatus"
    /\ fn.outcome = "*"
    /\ {"Check", "Capture", "EnPassant"} \subseteq fn.tags
    /\ fn.result = "check"

\* C13: for a rating r in 400..2000 the blunder chance is a whole
\* percentage in 0..40 that does not grow with r, and is 40 at r = 400,
\* 20 at r = 1200 and 0 at r = 2000.
C13_BlunderChanceMonotone ==
    (fn.op = "blunderChance" /\ fn.elo >= 400 /\ fn.elo <= 2000) =>
        /\ fn.result \in 0..40
        /\ fn.elo < 2000 => fn.next <= fn.result
        /\ fn.elo = 400 => fn.result = 40
        /\ fn.elo = 1200 => fn.result = 20
        /\ fn.elo = 2000 => fn.result = 0

\* The chance of a rating at which the float64 product is truncated below
\* the exact quotient was computed.
C13_Witness ==
    /\ fn.op = "blunderChance"
    /\ fn.elo = 1480
    /\ fn.result = 12
    /\ fn.next = 12

\* C15, as the specification states it: a rating below 400 gets the maximum
\* chance of 40, a rating of 2000 or more gets 0. The handler leaves the
\* chance at 0 below 400.
C15_BelowMinIsClamped ==
    fn.op = "blunderChance" =>
        /\ fn.elo < minBlunderElo => fn.result = maxBlunderChance
        /\ fn.elo >= maxBlunderElo => fn.result = 0

\* C18: with d the draw from 0..99 and p the blunder chance, the reply that
\* was applied is a valid move of the position after the user's move when
\* d < p and is the engine's best move when d >= p; with p = 0 it is always
\* the engine's best move.
C18_BlunderSubstitution ==
    (fn.op = "reply" /\ fn.applied) =>
        /\ fn.d < fn.p => MoveApplies(fn.game, fn.reply)
        /\ fn.d >= fn.p => fn.reply = fn.best
        /\ fn.p = 0 => fn.reply = fn.best

\* A blunder replaced the engine's best move by another valid move.
C18_Witness ==
    /\ fn.op = "reply"
    /\ fn.applied
    /\ fn.d < fn.p
    /\ fn.reply # fn.best
    /\ fn.d = fn.p - 1

----------------------------------------------------------------------------
\* No command of a log was run twice.
RunOnce(log) == \A i, j \in 1..Len(log) : log[i] = log[j] => i = j

\* C14: a body that does not bind and a position that does not decode are
\* answered with 400 before any engine is acquired; a failed strength
\* setting, a failed search, a missing best move and a validated move that
\* does not apply are answered with 500 at once, the failed command being
\* the last one run and no command run twice, with at most one acquire;
\* every classification of a move, legal or illegal, is answered with 200.
C14_ErrorStatuses ==
    /\ (lastResp.req \in Requests
            /\ DecodeFEN(lastResp.req.CurrentFEN) = NoPos)
           => lastResp.exit = "bad-fen"
    /\ lastResp.exit \in {"bad-body", "bad-fen"} =>
        /\ lastResp.status = StatusBadRequest
        /\ lastResp.gets = 0 /\ lastResp.engine = Nil
        /\ lastResp.cmds = <<>>
    /\ lastResp.exit \in {"elo-failed", "search-failed", "no-best-move",
                          "user-apply-failed", "engine-apply-failed"} =>
        /\ lastResp.status = StatusInternalServerError
        /\ lastResp.body = ErrorBody
        /\ lastResp.gets <= 1
        /\ RunOnce(lastResp.cmds)
    /\ lastResp.exit = "elo-failed" => lastResp.cmds = <<"setoption">>
    /\ lastResp.exit \in {"search-failed", "no-best-move"} =>
        /\ Len(lastResp.cmds) > 0
        /\ lastResp.cmds[Len(lastResp.cmds)] = "go"
    /\ lastResp.exit = "user-apply-failed" =>
        lastResp.gets = 0 /\ lastResp.cmds = <<>>
    /\ lastResp.body.kind \in {"MoveResponse", "engine-reply"} <=>
        lastResp.exit \in {"illegal-move", "game-over", "replied"}
    /\ lastResp.exit \in {"illegal-move", "game-over", "replied"} =>
        lastResp.status = StatusOK
    /\ \A r \in Reqs : gets[r] <= 1 /\ RunOnce(cmds[r])

\* A search failed after the strength was set and was answered with 500.
C14_Witness ==
    /\ lastResp.exit = "search-failed"
    /\ lastResp.status = StatusInternalServerError
    /\ lastResp.cmds = <<"setoption", "go">>
    /\ lastResp.gets = 1
    /\ lastResp.put = <<lastResp.engine>>

\* The request of the latest response named a position that decodes and a
\* valid move after which the game has an outcome, and the move was applied.
TerminalAfterUserMove(resp) ==
    /\ resp.req \in Requests
    /\ DecodeFEN(resp.req.CurrentFEN) # NoPos
    /\ LET m == FindMoveByUCI(DecodeFEN(resp.req.CurrentFEN),
                              resp.req.UserMove)
       IN  m # NoMove /\ Outcome(m.to) # "*"

\* C16: when the game is over after the user's move the answer is HTTP 200
\* with the classification of the user's move ("check-mate" or "draw"), the
\* position after the move, and empty engine_move and engine_move_status;
\* the request acquires no engine and leaves the idle set as it was.
C16_GameOverSkipsEngine ==
    /\ [](TerminalAfterUserMove(lastResp) =>
            LET m == FindMoveByUCI(DecodeFEN(lastResp.req.CurrentFEN),
                                   lastResp.req.UserMove)
            IN  /\ lastResp.status = StatusOK
                /\ lastResp.body.kind = "MoveResponse"
                /\ lastResp.body.UserMoveStatus =
                       (IF Method(m.to) = "Checkmate" THEN "check-mate"
                        ELSE "draw")
                /\ lastResp.body.NewFEN = <<m.to>>
                /\ lastResp.body.NewFEN # lastResp.req.CurrentFEN
                /\ lastResp.body.EngineMove = ""
                /\ lastResp.body.EngineMoveStatus = ""
                /\ lastResp.gets = 0
                /\ lastResp.engine = Nil
                /\ lastResp.put = <<>>)
    /\ [][(lastResp' # lastResp /\ TerminalAfterUserMove(lastResp')) =>
            UNCHANGED <<engines, eng, chClosed, engine, gets, pc>>]_vars

\* The user mated with a move that also carries the check and capture tags,
\* while every engine was checked out by other requests.
C16_Witness ==
    /\ TerminalAfterUserMove(lastResp)
    /\ lastResp.req.UserMove = "h5f7"
    /\ lastResp.body.UserMoveStatus = "check-mate"
    /\ Len(engines) = 0
    /\ CheckedOut # {}

\* C17, as the specification states it: a request that submits a search has
\* set the strength limit on the same engine earlier in the same checkout,
\* and a request whose strength setting failed submits no search. The
\* handler of main.go submits the search right after enginePool.Get().
C17_StrengthSetBeforeSearch ==
    /\ \A r \in Reqs :
        /\ pc[r] = "search" => cmds[r] = <<"setoption">>
        /\ pc[r] = "apply" => cmds[r] = <<"setoption", "go">>
    /\ (\E i \in 1..Len(lastResp.cmds) : lastResp.cmds[i] = "go") =>
        (Len(lastResp.cmds) = 2 /\ lastResp.cmds[1] = "setoption")
    /\ lastResp.exit = "elo-failed" =>
        \A i \in 1..Len(lastResp.cmds) : lastResp.cmds[i] # "go"

\* C19: a request acquires at most one engine and never waits in Get while
\* it holds one, so there is no state in which engines are checked out and
\* every holder is parked in Get waiting for another engine.
C19_NoHoldAndWait ==
    /\ \A r \in Reqs :
        /\ gets[r] <= 1
        /\ pc[r] = "get" => (engine[r] = Nil /\ gets[r] = 0)
        /\ engine[r] # Nil => (gets[r] = 1 /\ pc[r] \in {"elo", "search",
                                                        "apply"})
    /\ lastResp.gets <= 1
    /\ CheckedOut # {} => \E r \in CheckedOut : r \notin Blocked

\* Every engine is checked out, by two requests, and a third request waits.
C19_Witness ==
    /\ poolSize = 2
    /\ Len(engines) = 0
    /\ Cardinality(CheckedOut) = 2
    /\ Blocked # {}
    /\ Blocked \cap CheckedOut = {}

\* The pool that NewEnginePool returned to main has been closed.
ExposedClosed == enginePool = "pool" /\ chClosed

\* C20: main closes the pool it exposed at most once, and only when no
\* engine is checked out and no request waits in Get; no handler calls Get
\* or Put afterwards.
C20_CloseAfterHandlersDone ==
    /\ [](ExposedClosed =>
            /\ mainpc = "exit"
            /\ CheckedOut = {} /\ Blocked = {} /\ InFlight = {}
            /\ \A h \in 1..poolSize : eng[h].closes = 1
            /\ lastResp.exit # "panic")
    /\ [][(ExposedClosed' /\ ~ExposedClosed) =>
            /\ mainpc = "close"
            /\ CheckedOut = {} /\ Blocked = {} /\ InFlight = {}
            /\ Len(engines) = poolSize]_vars
    /\ [][ExposedClosed => UNCHANGED <<engines, eng, engine, pc, gets, cmds,
                                  lastResp, chClosed>>]_vars

\* main closed the pool after requests were served: every engine is closed
\* once.
C20_Witness ==
    /\ chClosed
    /\ mainpc = "exit"
    /\ lastResp.exit = "replied"
    /\ poolSize = 2
    /\ \A h \in 1..poolSize : eng[h].state = "closed"

====
